---- MODULE Spec2Model ----
(***************************************************************************)
(* Model of the weather MCP server (src/src/index.ts): one tool,           *)
(* "get-alerts", whose handler upper-cases the state code, issues one GET  *)
(* to the NWS API through makeNWSRequest and renders the answer as text.   *)
(*                                                                         *)
(* A JavaScript string is modelled as the sequence of its UTF-16 code      *)
(* units, each code unit being a one-character TLA+ string; the code unit  *)
(* U+00DF (LATIN SMALL LETTER SHARP S) is written SHARP_S.  Concatenation, *)
(* template literals, join and toUpperCase are computed on these           *)
(* sequences, so lengths, separators and prefixes are those of the code.   *)
(***************************************************************************)
EXTENDS Integers, Sequences, FiniteSets, TLC

VARIABLES
    pc,               \* where the invocation stands: "idle", "validating",
                      \* "fetching" (await fetch), "reading" (await json),
                      \* "returned" (makeNWSRequest settled), "done",
                      \* "threw", "rejected"
    arg,              \* the `state` argument of the invocation
    stateCode,        \* const stateCode (line 105)
    alertsUrl,        \* const alertsUrl (line 106)
    requests,         \* the HTTP requests issued for the invocation (line 40)
    upstream,         \* how the upstream call went: "none", "pending",
                      \* "network_error", "http_error", "ok", "bad_json",
                      \* "parsed"
    alertsData,       \* const alertsData (line 107)
    formattedAlerts,  \* const formattedAlerts (line 128)
    response,         \* what the invocation ended with
    entered,          \* whether the handler (line 104) was entered
    errorLog          \* the number of console.error calls (line 47)

vars == << pc, arg, stateCode, alertsUrl, requests, upstream, alertsData,
           formattedAlerts, response, entered, errorLog >>

(***************************************************************************)
(* Bounds of the model.                                                    *)
(***************************************************************************)
\* longest `state` argument the host sends
MaxStateLen == 3
\* longest `features` array upstream returns
MaxFeatures == 2

(***************************************************************************)
(* Characters and string literals of the program.                          *)
(***************************************************************************)
NL == "\n"

SHARP_S == "U+00DF"

Lower ==
    << "a", "b", "c", "d", "e", "f", "g", "h", "i", "j", "k", "l", "m", "n",
       "o", "p", "q", "r", "s", "t", "u", "v", "w", "x", "y", "z" >>

Upper ==
    << "A", "B", "C", "D", "E", "F", "G", "H", "I", "J", "K", "L", "M", "N",
       "O", "P", "Q", "R", "S", "T", "U", "V", "W", "X", "Y", "Z" >>

\* const NWS_API_BASE = "https://api.weather.gov/";
NWS_API_BASE ==
    << "h", "t", "t", "p", "s", ":", "/", "/", "a", "p", "i", ".", "w", "e",
       "a", "t", "h", "e", "r", ".", "g", "o", "v", "/" >>

\* const USER_AGENT = "weather-app/1.0";
USER_AGENT ==
    << "w", "e", "a", "t", "h", "e", "r", "-", "a", "p", "p", "/", "1", ".",
       "0" >>

\* accept: "application/geo+json"
ACCEPT ==
    << "a", "p", "p", "l", "i", "c", "a", "t", "i", "o", "n", "/", "g", "e",
       "o", "+", "j", "s", "o", "n" >>

\* the literal part of `${NWS_API_BASE}/alerts?area=${stateCode}`
ALERTS_PATH ==
    << "/", "a", "l", "e", "r", "t", "s", "?", "a", "r", "e", "a", "=" >>

FAILED_TEXT ==
    << "F", "a", "i", "l", "e", "d", " ", "t", "o", " ", "r", "e", "t", "r",
       "i", "e", "v", "e", " ", "a", "l", "e", "r", "t", "s", ".", " ", "P",
       "l", "e", "a", "s", "e", " ", "t", "r", "y", " ", "a", "g", "a", "i",
       "n", " ", "l", "a", "t", "e", "r", "." >>

NO_ALERTS_TEXT ==
    << "N", "o", " ", "a", "l", "e", "r", "t", "s", " ", "f", "o", "u", "n",
       "d", " ", "f", "o", "r", " ", "t", "h", "e", " ", "g", "i", "v", "e",
       "n", " ", "s", "t", "a", "t", "e", "." >>

\* the literal parts of `Active Alerts in ${stateCode}:\n${...}`
HEADER_PREFIX ==
    << "A", "c", "t", "i", "v", "e", " ", "A", "l", "e", "r", "t", "s", " ",
       "i", "n", " " >>

HEADER_SUFFIX == << ":", NL >>

EVENT_LABEL ==
    << "e", "v", "e", "n", "t", ":", " " >>

AREA_LABEL ==
    << "a", "r", "e", "a", ":", " " >>

SEVERITY_LABEL ==
    << "s", "e", "v", "e", "r", "i", "t", "y", ":", " " >>

STATUS_LABEL ==
    << "s", "t", "a", "t", "u", "s", ":", " " >>

HEADLINE_LABEL ==
    << "h", "e", "a", "d", "l", "i", "n", "e", ":", " " >>

UNKNOWN_EVENT ==
    << "U", "n", "k", "n", "o", "w", "n", " ", "E", "v", "e", "n", "t" >>

UNKNOWN_AREA ==
    << "U", "n", "k", "n", "o", "w", "n", " ", "A", "r", "e", "a" >>

UNKNOWN_SEVERITY ==
    << "U", "n", "k", "n", "o", "w", "n", " ", "S", "e", "v", "e", "r", "i",
       "t", "y" >>

UNKNOWN_STATUS ==
    << "U", "n", "k", "n", "o", "w", "n", " ", "S", "t", "a", "t", "u", "s" >>

UNKNOWN_HEADLINE ==
    << "U", "n", "k", "n", "o", "w", "n", " ", "H", "e", "a", "d", "l", "i",
       "n", "e" >>

(***************************************************************************)
(* JavaScript string operations used by the program.                       *)
(***************************************************************************)
RECURSIVE Flatten(_)
\* the concatenation of a sequence of strings
Flatten(parts) ==
    IF parts = << >> THEN << >> ELSE Head(parts) \o Flatten(Tail(parts))

RECURSIVE join(_, _)
\* Array.prototype.join: the elements with `sep` between consecutive ones
join(parts, sep) ==
    IF parts = << >> THEN << >>
    ELSE IF Len(parts) = 1 THEN parts[1]
    ELSE parts[1] \o sep \o join(Tail(parts), sep)

IndexIn(c, alphabet) ==
    CHOOSE i \in 1..Len(alphabet) : alphabet[i] = c

IsLower(c) == \E i \in 1..Len(Lower) : Lower[i] = c

IsUpper(c) == \E i \in 1..Len(Upper) : Upper[i] = c

\* the upper-case mapping of one code unit: a-z map to A-Z, U+00DF has the
\* special-casing mapping "SS" (two code units), every other code unit of
\* the model maps to itself
toUpperCaseUnit(c) ==
    IF IsLower(c) THEN << Upper[IndexIn(c, Lower)] >>
    ELSE IF c = SHARP_S THEN << "S", "S" >>
    ELSE << c >>

\* a faulty variant: the normalisation is left out
toUpperCaseOmitted(s) == s

\* String.prototype.toUpperCase
toUpperCase(s) ==
    Flatten([i \in 1..Len(s) |-> toUpperCaseUnit(s[i])])

(***************************************************************************)
(* Values.                                                                 *)
(***************************************************************************)
\* an optional string field of `properties`
None == [present |-> FALSE, value |-> << >>]

Some(s) == [present |-> TRUE, value |-> s]

\* `x || fallback` on an optional string: undefined and "" are falsy
OrElse(field, fallback) ==
    IF field.present /\ field.value # << >> THEN field.value ELSE fallback

\* a faulty variant: only a missing field takes the fallback (`??`)
OrElseNullish(field, fallback) ==
    IF field.present THEN field.value ELSE fallback

NoProps ==
    [event |-> None, areaDesc |-> None, severity |-> None, status |-> None,
     headline |-> None]

FullProps ==
    [event |-> Some(<< "F", "l", "o", "o", "d" >>),
     areaDesc |-> Some(<< "L", "A" >>),
     severity |-> Some(<< "S", "e", "v", "e", "r", "e" >>),
     status |-> Some(<< "A", "c", "t", "u", "a", "l" >>),
     headline |-> Some(<< "R", "a", "i", "n" >>)]

FieldNames == {"event", "areaDesc", "severity", "status", "headline"}

\* the `properties` objects upstream sends: complete, one field missing, one
\* field the empty string, nothing at all, a field holding a line break
PropsSamples ==
    {FullProps, NoProps}
    \cup {[FullProps EXCEPT ![f] = None] : f \in FieldNames}
    \cup {[FullProps EXCEPT ![f] = Some(<< >>)] : f \in {"event", "areaDesc"}}
    \cup {[FullProps EXCEPT !.headline = Some(<< "a", NL, "b" >>)]}

\* an element of `features`: an alert object with `properties`, an object
\* without `properties`, or null
FeatureEntries ==
    {[t |-> "object", hasProps |-> TRUE, properties |-> p] : p \in PropsSamples}
    \cup {[t |-> "object", hasProps |-> FALSE, properties |-> NoProps],
          [t |-> "null", hasProps |-> FALSE, properties |-> NoProps]}

RECURSIVE SeqsUpTo(_, _)
\* the sequences over S of length at most n
SeqsUpTo(S, n) ==
    IF n = 0 THEN {<< >>}
    ELSE LET shorter == SeqsUpTo(S, n - 1)
         IN  shorter \cup {Append(q, x) : q \in {r \in shorter : Len(r) = n - 1}, x \in S}

Undefined == [t |-> "undefined", items |-> << >>]

EmptyArray == [t |-> "array", items |-> << >>]

\* the values of the `features` field: missing, null, an array, or an object
\* that is no array
FeaturesValues ==
    {Undefined, [t |-> "null", items |-> << >>], [t |-> "object", items |-> << >>]}
    \cup {[t |-> "array", items |-> q] : q \in SeqsUpTo(FeatureEntries, MaxFeatures)}

\* JavaScript null, as makeNWSRequest returns it and as JSON `null` parses
NullData == [t |-> "null", features |-> Undefined]

\* the bodies response.json() resolves to
Bodies ==
    {NullData} \cup {[t |-> "object", features |-> f] : f \in FeaturesValues}

StateChars == {"c", "a", "C", "A", SHARP_S}

\* the `state` arguments a host sends: missing, a number, or a string
StateArgs ==
    {[t |-> "undefined", s |-> << >>], [t |-> "number", s |-> << "4", "2" >>]}
    \cup {[t |-> "string", s |-> q] : q \in SeqsUpTo(StateChars, MaxStateLen)}

Statuses == {200, 204, 404, 500}

\* Response.ok
IsOk(status) == status >= 200 /\ status <= 299

NoResponse == [kind |-> "none", content |-> << >>]

TextResult(text) ==
    [kind |-> "result", content |-> << [type |-> "text", text |-> text] >>]

Thrown == [kind |-> "thrown", content |-> << >>]

Rejected == [kind |-> "rejected", content |-> << >>]

(***************************************************************************)
(* The program.                                                            *)
(***************************************************************************)
\* a faulty variant: only the upper limit of the length is enforced
stateSchemaMaxOnly(a) == a.t = "string" /\ Len(a.s) <= 2

\* state: z.string().length(2)
stateSchema(a) == a.t = "string" /\ Len(a.s) = 2

\* the request fetch(url, { headers }) issues
Request(url) ==
    [method |-> "GET", url |-> url, userAgent |-> USER_AGENT, accept |-> ACCEPT]

\* `${NWS_API_BASE}/alerts?area=${stateCode}`
AlertsUrl(code) == NWS_API_BASE \o ALERTS_PATH \o code

\* reading `feature.properties`, then a field of it, throws a TypeError when
\* the feature is null or has no `properties`
formatAlertThrows(feature) == feature.t = "null" \/ ~feature.hasProps

\* a faulty variant: the fallbacks are taken with `??` instead of `||`
formatAlertNullish(feature) ==
    LET props == feature.properties
    IN  join(<< EVENT_LABEL \o OrElseNullish(props.event, UNKNOWN_EVENT),
                AREA_LABEL \o OrElseNullish(props.areaDesc, UNKNOWN_AREA),
                SEVERITY_LABEL \o OrElseNullish(props.severity, UNKNOWN_SEVERITY),
                STATUS_LABEL \o OrElseNullish(props.status, UNKNOWN_STATUS),
                HEADLINE_LABEL \o OrElseNullish(props.headline, UNKNOWN_HEADLINE) >>,
             << NL >>)

formatAlert(feature) ==
    LET props == feature.properties
    IN  join(<< EVENT_LABEL \o OrElse(props.event, UNKNOWN_EVENT),
                AREA_LABEL \o OrElse(props.areaDesc, UNKNOWN_AREA),
                SEVERITY_LABEL \o OrElse(props.severity, UNKNOWN_SEVERITY),
                STATUS_LABEL \o OrElse(props.status, UNKNOWN_STATUS),
                HEADLINE_LABEL \o OrElse(props.headline, UNKNOWN_HEADLINE) >>,
             << NL >>)

\* null and undefined are falsy, arrays and objects are truthy
Truthy(v) == v.t \in {"array", "object"}

\* a faulty variant: the field is read without the `|| []` default
featuresOfNoDefault(data) == data.features

\* alertsData.features || []
featuresOf(data) ==
    IF Truthy(data.features) THEN data.features ELSE EmptyArray

\* reading `.length` of null or undefined throws a TypeError
LengthThrows(v) == v.t \in {"undefined", "null"}

\* features.length === 0: only an array has a numeric length here
LengthIsZero(v) == v.t = "array" /\ Len(v.items) = 0

\* features.map(formatAlert) throws when `features` has no map method or
\* formatAlert throws on an element
MapThrows(v) ==
    \/ v.t # "array"
    \/ \E i \in 1..Len(v.items) : formatAlertThrows(v.items[i])

\* features.map(formatAlert)
MapFormatAlert(v) == [i \in 1..Len(v.items) |-> formatAlert(v.items[i])]

\* a faulty variant: the blocks are joined by a single line break
alertsTextSingleBreak(code, formatted) ==
    HEADER_PREFIX \o code \o HEADER_SUFFIX \o join(formatted, << NL >>)

\* `Active Alerts in ${stateCode}:\n${formattedAlerts.join("\n\n")}`
alertsText(code, formatted) ==
    HEADER_PREFIX \o code \o HEADER_SUFFIX \o join(formatted, << NL, NL >>)

Init ==
    /\ pc = "idle"
    /\ arg = [t |-> "undefined", s |-> << >>]
    /\ stateCode = << >>
    /\ alertsUrl = << >>
    /\ requests = << >>
    /\ upstream = "none"
    /\ alertsData = NullData
    /\ formattedAlerts = << >>
    /\ response = NoResponse
    /\ entered = FALSE
    /\ errorLog = 0

\* the host sends a tools/call request for get-alerts; the transport carries
\* one invocation at a time
CallTool ==
    /\ pc = "idle"
    /\ \E a \in StateArgs : arg' = a
    /\ pc' = "validating"
    /\ UNCHANGED << stateCode, alertsUrl, requests, upstream, alertsData,
                    formattedAlerts, response, entered, errorLog >>

\* the protocol layer refuses arguments that do not match the schema
SchemaReject ==
    /\ pc = "validating"
    /\ ~stateSchema(arg)
    /\ pc' = "rejected"
    /\ response' = Rejected
    /\ UNCHANGED << arg, stateCode, alertsUrl, requests, upstream, alertsData,
                    formattedAlerts, entered, errorLog >>

\* the handler runs up to `await fetch(url, { headers })`
HandlerEnter ==
    /\ pc = "validating"
    /\ stateSchema(arg)
    /\ entered' = TRUE
    /\ stateCode' = toUpperCase(arg.s)
    /\ alertsUrl' = AlertsUrl(stateCode')
    /\ requests' = Append(requests, Request(alertsUrl'))
    /\ upstream' = "pending"
    /\ pc' = "fetching"
    /\ UNCHANGED << arg, alertsData, formattedAlerts, response, errorLog >>

\* a faulty variant: a failed fetch is tried again
FetchRejectsRetry ==
    /\ pc = "fetching"
    /\ Len(requests) < 2
    /\ requests' = Append(requests, Request(alertsUrl))
    /\ errorLog' = errorLog + 1
    /\ UNCHANGED << pc, arg, stateCode, alertsUrl, upstream, alertsData,
                    formattedAlerts, response, entered >>

\* fetch rejects (network error): caught, logged, null returned
FetchRejects ==
    /\ pc = "fetching"
    /\ upstream' = "network_error"
    /\ errorLog' = errorLog + 1
    /\ alertsData' = NullData
    /\ pc' = "returned"
    /\ UNCHANGED << arg, stateCode, alertsUrl, requests, formattedAlerts,
                    response, entered >>

\* fetch resolves with a status: a status that is not ok is thrown, caught,
\* logged and null returned; otherwise the body is read
FetchResolves ==
    /\ pc = "fetching"
    /\ \E status \in Statuses :
         IF IsOk(status)
         THEN /\ upstream' = "ok"
              /\ pc' = "reading"
              /\ UNCHANGED << errorLog, alertsData >>
         ELSE /\ upstream' = "http_error"
              /\ errorLog' = errorLog + 1
              /\ alertsData' = NullData
              /\ pc' = "returned"
    /\ UNCHANGED << arg, stateCode, alertsUrl, requests, formattedAlerts,
                    response, entered >>

\* a faulty variant: the parse error is not caught
JsonRejectsUncaught ==
    /\ pc = "reading"
    /\ upstream' = "bad_json"
    /\ response' = Thrown
    /\ pc' = "threw"
    /\ UNCHANGED << arg, stateCode, alertsUrl, requests, alertsData,
                    formattedAlerts, entered, errorLog >>

\* response.json() rejects (the body is no JSON): caught, logged, null
JsonRejects ==
    /\ pc = "reading"
    /\ upstream' = "bad_json"
    /\ errorLog' = errorLog + 1
    /\ alertsData' = NullData
    /\ pc' = "returned"
    /\ UNCHANGED << arg, stateCode, alertsUrl, requests, formattedAlerts,
                    response, entered >>

\* response.json() resolves with the parsed body
JsonResolves ==
    /\ pc = "reading"
    /\ \E body \in Bodies : alertsData' = body
    /\ upstream' = "parsed"
    /\ pc' = "returned"
    /\ UNCHANGED << arg, stateCode, alertsUrl, requests, formattedAlerts,
                    response, entered, errorLog >>

\* the handler after `await makeNWSRequest(alertsUrl)`
HandlerResume ==
    /\ pc = "returned"
    /\ IF ~Truthy(alertsData)
       THEN /\ response' = TextResult(FAILED_TEXT)
            /\ pc' = "done"
            /\ UNCHANGED formattedAlerts
       ELSE LET features == featuresOf(alertsData)
            IN  IF LengthThrows(features)
                THEN /\ response' = Thrown
                     /\ pc' = "threw"
                     /\ UNCHANGED formattedAlerts
                ELSE IF LengthIsZero(features)
                THEN /\ response' = TextResult(NO_ALERTS_TEXT)
                     /\ pc' = "done"
                     /\ UNCHANGED formattedAlerts
                ELSE IF MapThrows(features)
                THEN /\ response' = Thrown
                     /\ pc' = "threw"
                     /\ UNCHANGED formattedAlerts
                ELSE /\ formattedAlerts' = MapFormatAlert(features)
                     /\ response' = TextResult(alertsText(stateCode, formattedAlerts'))
                     /\ pc' = "done"
    /\ UNCHANGED << arg, stateCode, alertsUrl, requests, upstream, alertsData,
                    entered, errorLog >>

\* the protocol layer writes the outcome to the transport; nothing of the
\* invocation is kept
Reply ==
    /\ pc \in {"rejected", "done", "threw"}
    /\ pc' = "idle"
    /\ arg' = [t |-> "undefined", s |-> << >>]
    /\ stateCode' = << >>
    /\ alertsUrl' = << >>
    /\ requests' = << >>
    /\ upstream' = "none"
    /\ alertsData' = NullData
    /\ formattedAlerts' = << >>
    /\ response' = NoResponse
    /\ entered' = FALSE
    /\ errorLog' = 0

Next ==
    \/ CallTool
    \/ SchemaReject
    \/ HandlerEnter
    \/ FetchRejects
    \/ FetchResolves
    \/ JsonRejects
    \/ JsonResolves
    \/ HandlerResume
    \/ Reply

Spec == Init /\ [][Next]_vars

(***************************************************************************)
(* Vocabulary of the properties.                                           *)
(***************************************************************************)
RECURSIVE SplitLines(_)
\* the lines of a text: the segments between its line breaks
SplitLines(text) ==
    IF \E i \in 1..Len(text) : text[i] = NL
    THEN LET k == CHOOSE i \in 1..Len(text) :
                      text[i] = NL /\ \A j \in 1..(i - 1) : text[j] # NL
         IN  << SubSeq(text, 1, k - 1) >> \o SplitLines(SubSeq(text, k + 1, Len(text)))
    ELSE << text >>

HasLineBreak(text) == \E i \in 1..Len(text) : text[i] = NL

\* the one-block text response the handler returns for `text`
OneTextBlock(text) ==
    [kind |-> "result", content |-> << [type |-> "text", text |-> text] >>]

UpstreamFailed == upstream \in {"network_error", "http_error", "bad_json"}

HandlerEnded == pc \in {"done", "threw"}

\* the text of a response that carries one
ResponseText == response.content[1].text

\* the body is an object whose `features` is a non-empty array
HasFeatures ==
    /\ upstream = "parsed"
    /\ alertsData.t = "object"
    /\ alertsData.features.t = "array"
    /\ alertsData.features.items # << >>

FeatureAt(i) == alertsData.features.items[i]

\* the URL the interface section gives, up to the state code
DOCUMENTED_URL_PREFIX ==
    << "h", "t", "t", "p", "s", ":", "/", "/", "a", "p", "i", ".", "w", "e",
       "a", "t", "h", "e", "r", ".", "g", "o", "v", "/", "a", "l", "e", "r",
       "t", "s", "?", "a", "r", "e", "a", "=" >>

HEADER_CA ==
    << "A", "c", "t", "i", "v", "e", " ", "A", "l", "e", "r", "t", "s", " ",
       "i", "n", " ", "C", "A", ":" >>

(* C1: whenever the upstream call of a valid invocation failed (fetch
   rejected, status not ok, or body unparsable), the handler ends with a
   normal response of one text block whose text is exactly "Failed to
   retrieve alerts. Please try again later.", the same for the three kinds
   of failure. *)
C1_FailuresCollapse ==
    /\ (UpstreamFailed /\ pc = "returned") => alertsData = NullData
    /\ (UpstreamFailed /\ HandlerEnded) =>
           /\ pc = "done"
           /\ response = OneTextBlock(FAILED_TEXT)

C1_Witness ==
    /\ pc = "done"
    /\ upstream = "bad_json"
    /\ response.kind = "result"

(* C2: for every successfully parsed body the handler ends with a normal
   response and never with a thrown exception, also when `features` holds
   an entry without `properties` or is no array. *)
C2_ParsedBodyNeverThrows ==
    (upstream = "parsed" /\ HandlerEnded) => (pc = "done" /\ response.kind = "result")

(* C3: an invocation whose `state` is no string, or a string of a length
   other than 2, is rejected by schema validation: the handler is never
   entered and no HTTP request is issued for it. *)
C3_InvalidStateRejected ==
    (arg.t # "string" \/ Len(arg.s) # 2) =>
        /\ pc \in {"idle", "validating", "rejected"}
        /\ ~entered
        /\ requests = << >>
        /\ upstream = "none"

C3_Witness ==
    /\ pc = "rejected"
    /\ arg.t = "string"
    /\ Len(arg.s) = 1
    /\ response.kind = "rejected"

(* C4: the URL requested for state code S is exactly
   https://api.weather.gov/alerts?area=<S upper-cased>, with no extra or
   missing path separator. *)
C4_UrlAsDocumented ==
    entered =>
        /\ alertsUrl = DOCUMENTED_URL_PREFIX \o stateCode
        /\ requests[1].url = DOCUMENTED_URL_PREFIX \o stateCode

RECURSIVE BlocksInOrder(_)
\* the blocks of the first n features, one blank line between consecutive
\* blocks, nothing after the last
BlocksInOrder(n) ==
    IF n = 1 THEN formatAlert(FeatureAt(1))
    ELSE BlocksInOrder(n - 1) \o << NL, NL >> \o formatAlert(FeatureAt(n))

(* C5: when a valid invocation succeeds with n >= 1 features, the text is
   the header line "Active Alerts in <STATE>:", a line break, then the n
   formatAlert blocks in upstream order with exactly one blank line between
   consecutive blocks and no separator after the last block. *)
C5_AlertsTextLayout ==
    (pc = "done" /\ HasFeatures) =>
        /\ response.kind = "result"
        /\ Len(response.content) = 1
        /\ response.content[1].type = "text"
        /\ ResponseText =
               HEADER_PREFIX \o stateCode \o << ":" >> \o << NL >>
               \o BlocksInOrder(Len(alertsData.features.items))

C5_Witness ==
    /\ pc = "done"
    /\ HasFeatures
    /\ Len(alertsData.features.items) >= 2
    /\ FeatureAt(1) # FeatureAt(2)

(* C6: when the upstream call succeeds with an object body whose `features`
   is an empty array or is absent, the text is exactly "No alerts found for
   the given state."; that text is returned only when data was obtained,
   the failure message taking priority when none was. *)
C6_NoAlertsText ==
    /\ ( /\ HandlerEnded
         /\ upstream = "parsed"
         /\ alertsData.t = "object"
         /\ alertsData.features \in {Undefined, EmptyArray} )
       => response = OneTextBlock(NO_ALERTS_TEXT)
    /\ (response.kind = "result" /\ ResponseText = NO_ALERTS_TEXT)
       => (upstream = "parsed" /\ alertsData # NullData)
    /\ (HandlerEnded /\ alertsData = NullData) => response = OneTextBlock(FAILED_TEXT)

C6_Witness ==
    /\ pc = "done"
    /\ upstream = "parsed"
    /\ alertsData.t = "object"
    /\ alertsData.features = Undefined
    /\ response.kind = "result"

\* the value a line shows, a field counting as missing when it is absent or
\* the empty string
ShownValue(field, unknown) ==
    IF field.present /\ Len(field.value) > 0 THEN field.value ELSE unknown

\* the value a line shows, a field counting as missing only when absent
ShownValueIfPresent(field, unknown) ==
    IF field.present THEN field.value ELSE unknown

FiveLines(p) ==
    << EVENT_LABEL \o ShownValue(p.event, UNKNOWN_EVENT),
       AREA_LABEL \o ShownValue(p.areaDesc, UNKNOWN_AREA),
       SEVERITY_LABEL \o ShownValue(p.severity, UNKNOWN_SEVERITY),
       STATUS_LABEL \o ShownValue(p.status, UNKNOWN_STATUS),
       HEADLINE_LABEL \o ShownValue(p.headline, UNKNOWN_HEADLINE) >>

FiveLinesIfPresent(p) ==
    << EVENT_LABEL \o ShownValueIfPresent(p.event, UNKNOWN_EVENT),
       AREA_LABEL \o ShownValueIfPresent(p.areaDesc, UNKNOWN_AREA),
       SEVERITY_LABEL \o ShownValueIfPresent(p.severity, UNKNOWN_SEVERITY),
       STATUS_LABEL \o ShownValueIfPresent(p.status, UNKNOWN_STATUS),
       HEADLINE_LABEL \o ShownValueIfPresent(p.headline, UNKNOWN_HEADLINE) >>

NoFieldBreaksLine(p) ==
    \A f \in FieldNames : ~HasLineBreak(p[f].value)

(* C7 (as amended): for every feature with a `properties` object whose
   fields are strings or absent, formatAlert produces the five entries
   event, area, severity, status, headline in that order, each
   "label: value", separated by single line breaks, where value is the
   field when it is a non-empty string and the literal "Unknown Event",
   "Unknown Area", "Unknown Severity", "Unknown Status", "Unknown Headline"
   when the field is missing or the empty string; these are exactly five
   lines when no field holds a line break. *)
C7_FormatAlertFallbacks ==
    \A i \in 1..Len(formattedAlerts) :
        LET p == FeatureAt(i).properties
            block == formattedAlerts[i]
            l == FiveLines(p)
        IN  /\ block = l[1] \o << NL >> \o l[2] \o << NL >> \o l[3] \o << NL >>
                       \o l[4] \o << NL >> \o l[5]
            /\ NoFieldBreaksLine(p) => SplitLines(block) = l

C7_Witness ==
    /\ pc = "done"
    /\ Len(formattedAlerts) >= 2
    /\ FeatureAt(1).properties.event = Some(<< >>)
    /\ ~FeatureAt(2).properties.headline.present

(* C7 (as claimed): for every feature formatAlert produces exactly five
   lines in the order event, area, severity, status, headline, each
   "label: value", where value is the field when present and the literal
   "Unknown ..." when the field is missing. *)
C7_FormatAlertAsClaimed ==
    \A i \in 1..Len(formattedAlerts) :
        SplitLines(formattedAlerts[i]) = FiveLinesIfPresent(FeatureAt(i).properties)

\* u is the upper-case form of the letter c
UpperCaseOf(u, c) ==
    /\ IsUpper(u)
    /\ IF IsUpper(c) THEN u = c ELSE IndexIn(u, Upper) = IndexIn(c, Lower)

IsLetter(c) == IsLower(c) \/ IsUpper(c)

(* C8: for every valid two-letter state code, whatever the case of its
   letters, the state label in the header line of a non-empty result is the
   upper-cased code; ca, Ca, cA and CA all give "Active Alerts in CA:". *)
C8_HeaderUpperCased ==
    (pc = "done" /\ HasFeatures /\ \A k \in 1..Len(arg.s) : IsLetter(arg.s[k])) =>
        LET header == SplitLines(ResponseText)[1]
            n == Len(HEADER_PREFIX)
        IN  /\ Len(header) = n + Len(arg.s) + 1
            /\ SubSeq(header, 1, n) = HEADER_PREFIX
            /\ header[Len(header)] = ":"
            /\ \A k \in 1..Len(arg.s) : UpperCaseOf(header[n + k], arg.s[k])
            /\ arg.s \in {<< "c", "a" >>, << "C", "a" >>, << "c", "A" >>, << "C", "A" >>}
                   => header = HEADER_CA

C8_Witness ==
    /\ pc = "done"
    /\ HasFeatures
    /\ arg.s = << "c", "A" >>
    /\ response.kind = "result"

(* C9: every valid invocation issues exactly one HTTP GET; after a failed
   attempt no second request is issued, and the response of the invocation
   is produced only after that one request has completed. *)
C9_SingleRequest ==
    /\ [](entered => (Len(requests) = 1 /\ requests[1].method = "GET"))
    /\ [](~entered => requests = << >>)
    /\ [](response.kind \in {"result", "thrown"} =>
              upstream \in {"network_error", "http_error", "bad_json", "parsed"})
    /\ [][Len(requests') > Len(requests) => (pc = "validating" /\ requests = << >>)]_vars
    /\ [][UpstreamFailed => requests' \in {requests, << >>}]_vars

C9_Witness ==
    /\ pc = "done"
    /\ upstream = "http_error"
    /\ Len(requests) = 1
    /\ response.kind = "result"

(* C10: for every input that passes schema validation (a string of exactly
   two characters, of any characters), the upper-cased state code placed in
   the URL and in the header line still has exactly two characters. *)
C10_CodeKeepsTwoCharacters ==
    entered => Len(stateCode) = 2

====
